---------------------------- MODULE Spec2Model ----------------------------
(***************************************************************************)
(* A model of DisplayCAL/edid.py: the manufacturer (PNP id) cache and its  *)
(* two database parsers, the EDID decoder and its helpers.                 *)
(*                                                                         *)
(* Text is a sequence of characters, each character a one-element token    *)
(* ("S", "=", "TAB", "NBSP", ...).  Bytes are the integers 0..255.         *)
(* A Python value that may be None is a record [some, val].                *)
(***************************************************************************)
EXTENDS Integers, Sequences, FiniteSets, TLC

(***************************************************************************)
(* Bounds of the model.                                                    *)
(***************************************************************************)
\* the longest database file, in lines
MaxLines == 2
\* the number of get_manufacturer_name / parse_edid calls of one thread
MaxCalls == 2
\* the number of calls of one session of decodes and lookups
MaxSession == 3
\* the longest argument of edid_parse_string drawn in full from DescBytes
MaxDescLen == 6

(***************************************************************************)
(* Python values.                                                          *)
(***************************************************************************)
None == [some |-> FALSE, val |-> <<>>]

Some(v) == [some |-> TRUE, val |-> v]

\* bool(x) of an Optional[str]: None and "" are false
Truthy(x) == x.some /\ x.val # <<>>

(***************************************************************************)
(* Characters and str methods.                                             *)
(***************************************************************************)
\* string.whitespace
AsciiWhitespace == {" ", "TAB", "LF", "CR", "VT", "FF"}

\* the characters str.strip() and str.split(None) treat as whitespace
\* (str.isspace), among those the model's lines use
UnicodeWhitespace == AsciiWhitespace \cup {"NBSP"}

RECURSIVE LStrip(_, _)
LStrip(s, chars) ==
  IF s # <<>> /\ Head(s) \in chars THEN LStrip(Tail(s), chars) ELSE s

RECURSIVE RStrip(_, _)
RStrip(s, chars) ==
  IF s # <<>> /\ s[Len(s)] \in chars
  THEN RStrip(SubSeq(s, 1, Len(s) - 1), chars)
  ELSE s

\* s.strip(chars)
Strip(s, chars) == RStrip(LStrip(s, chars), chars)

\* s.startswith(prefix)
StartsWith(s, prefix) ==
  Len(s) >= Len(prefix) /\ SubSeq(s, 1, Len(prefix)) = prefix

\* s.find(ch) + 1: the first position of ch in s, 0 when there is none
Find(s, ch) ==
  IF \E i \in 1..Len(s) : s[i] = ch
  THEN CHOOSE i \in 1..Len(s) : s[i] = ch /\ \A j \in 1..(i - 1) : s[j] # ch
  ELSE 0

\* the first position of a character of chars in s, 0 when there is none
FindAny(s, chars) ==
  IF \E i \in 1..Len(s) : s[i] \in chars
  THEN CHOOSE i \in 1..Len(s) :
         s[i] \in chars /\ \A j \in 1..(i - 1) : s[j] \notin chars
  ELSE 0

\* s[i:] for a 0-based i
From(s, i) == SubSeq(s, i + 1, Len(s))

\* s[:n]
Take(s, n) == SubSeq(s, 1, IF n < Len(s) THEN n ELSE Len(s))

\* s.split(sep): the list of fields
RECURSIVE Split(_, _)
Split(s, sep) ==
  LET i == Find(s, sep) IN
  IF i = 0 THEN <<s>> ELSE <<SubSeq(s, 1, i - 1)>> \o Split(From(s, i), sep)

\* s.split(sep, 1)
Split1(s, sep) ==
  LET i == Find(s, sep) IN
  IF i = 0 THEN <<s>> ELSE <<SubSeq(s, 1, i - 1), From(s, i)>>

\* s.split(None, 1): at most two fields, separated by a run of whitespace;
\* leading whitespace is skipped and the rest is kept as it is
SplitWs1(s) ==
  LET t == LStrip(s, UnicodeWhitespace)
      i == FindAny(t, UnicodeWhitespace)
      rest == IF i = 0 THEN <<>> ELSE LStrip(From(t, i), UnicodeWhitespace)
  IN  IF t = <<>> THEN <<>>
      ELSE IF rest = <<>> THEN <<SubSeq(t, 1, IF i = 0 THEN Len(t) ELSE i - 1)>>
      ELSE <<SubSeq(t, 1, i - 1), rest>>

(***************************************************************************)
(* Bytes, integers and the codecs.  A bytes object is a sequence of        *)
(* integers 0..255 and a str of the decoder a sequence of code points; an  *)
(* argument of parse_edid is [kind, data] with kind "bytes" or "str".      *)
(***************************************************************************)
Byte == 0..255

\* 2 ** n
RECURSIVE Pow2(_)
Pow2(n) == IF n = 0 THEN 1 ELSE 2 * Pow2(n - 1)

\* value >> n
ShiftRight(value, n) == value \div Pow2(n)

\* a | b
RECURSIVE BitOr(_, _)
BitOr(a, b) ==
  IF a = 0 THEN b
  ELSE IF b = 0 THEN a
  ELSE (IF a % 2 = 1 \/ b % 2 = 1 THEN 1 ELSE 0) + 2 * BitOr(a \div 2, b \div 2)

\* b[i] for a 0-based i
At(b, i) == b[i + 1]

\* b[lo:hi]: a slice stops at the end of b
Slice(b, lo, hi) == SubSeq(b, lo + 1, IF hi < Len(b) THEN hi ELSE Len(b))

\* x in b
Contains(b, x) == \E i \in 1..Len(b) : b[i] = x

\* sum(char for char in b), summed by halves
RECURSIVE Sum(_)
Sum(b) ==
  IF b = <<>> THEN 0
  ELSE IF Len(b) = 1 THEN b[1]
  ELSE LET h == Len(b) \div 2 IN
       Sum(SubSeq(b, 1, h)) + Sum(SubSeq(b, h + 1, Len(b)))

\* b.replace(bytes([x]), bytes([y]))
Replace(b, x, y) == [i \in 1..Len(b) |-> IF b[i] = x THEN y ELSE b[i]]

\* a continuation byte of UTF-8
IsCont(x) == x \in 128..191

\* the length of the longest prefix of b of bytes below 128
AsciiPrefix(b) ==
  IF \E i \in 1..Len(b) : b[i] >= 128
  THEN (CHOOSE i \in 1..Len(b) :
          b[i] >= 128 /\ \A j \in 1..(i - 1) : b[j] < 128) - 1
  ELSE Len(b)

\* the decoder's loop: cps are the code points decoded so far, b the bytes
\* left.  A run of bytes below 128 decodes to itself; b[1] is then the
\* lead byte of a sequence of 2, 3 or 4 bytes.
RECURSIVE Utf8DecodeFrom(_, _)
Utf8DecodeFrom(cps, b) ==
  LET Bad == [exc |-> "UnicodeDecodeError", data |-> <<>>]
      a == AsciiPrefix(b)
      x == b[1]
  IN  IF b = <<>> THEN [exc |-> "none", data |-> cps]
      ELSE IF a > 0 THEN Utf8DecodeFrom(cps \o Take(b, a), From(b, a))
      ELSE IF x \in 194..223
      THEN IF Len(b) >= 2 /\ IsCont(b[2])
           THEN Utf8DecodeFrom(Append(cps, (x - 192) * 64 + (b[2] - 128)),
                               From(b, 2))
           ELSE Bad
      ELSE IF x \in 224..239
      THEN IF /\ Len(b) >= 3
              /\ IsCont(b[2])
              /\ IsCont(b[3])
              /\ (x = 224 => b[2] >= 160)
              /\ (x = 237 => b[2] <= 159)
           THEN Utf8DecodeFrom(
                  Append(cps, (x - 224) * 4096 + (b[2] - 128) * 64 + (b[3] - 128)),
                  From(b, 3))
           ELSE Bad
      ELSE IF x \in 240..244
      THEN IF /\ Len(b) >= 4
              /\ IsCont(b[2])
              /\ IsCont(b[3])
              /\ IsCont(b[4])
              /\ (x = 240 => b[2] >= 144)
              /\ (x = 244 => b[2] <= 143)
           THEN Utf8DecodeFrom(
                  Append(cps, (x - 240) * 262144 + (b[2] - 128) * 4096
                                + (b[3] - 128) * 64 + (b[4] - 128)),
                  From(b, 4))
           ELSE Bad
      ELSE Bad

\* bytes.decode("utf-8"): the code points, or exc = "UnicodeDecodeError"
Utf8Decode(b) == Utf8DecodeFrom(<<>>, b)

\* str.encode("latin-1"): the bytes, or exc = "UnicodeEncodeError"
Latin1Encode(cps) ==
  IF \E i \in 1..Len(cps) : cps[i] > 255
  THEN [exc |-> "UnicodeEncodeError", data |-> <<>>]
  ELSE [exc |-> "none", data |-> cps]

\* chr(n) for the codes 64..95, the range of a 5-bit field plus ord("A") - 1;
\* the backslash, code 92, is the token "BACKSLASH"
Ascii ==
  <<"@", "A", "B", "C", "D", "E", "F", "G", "H", "I", "J", "K", "L", "M",
    "N", "O", "P", "Q", "R", "S", "T", "U", "V", "W", "X", "Y", "Z", "[",
    "BACKSLASH", "]", "^", "_">>

Chr(n) == Ascii[n - 63]

(***************************************************************************)
(* The bit-field helpers and the manufacturer id.                          *)
(***************************************************************************)
combine_hi_8lo(hi, lo) == BitOr(hi * 256, lo)

\* (value & (1 << bit)) >> bit
edid_get_bit(value, bit) == ShiftRight(value, bit) % 2

\* (value >> begin) & ((1 << (end - begin + 1)) - 1)
edid_get_bits(value, begin, end) ==
  ShiftRight(value, begin) % Pow2(end - begin + 1)

\* IdChar with the mask 0x0F: the top bit of the field is dropped
IdCharFourBits(h, shift) == Chr((ShiftRight(h, shift) % 16) + 65 - 1)

\* the character of one 5-bit field: chr(((h >> shift) & 0x1F) + ord("A") - 1)
IdChar(h, shift) == Chr((ShiftRight(h, shift) % 32) + 65 - 1)

parse_manufacturer_id(block) ==
  LET h == combine_hi_8lo(At(block, 0), At(block, 1)) IN
  Strip(<<IdChar(h, 10), IdChar(h, 5), IdChar(h, 0)>>, UnicodeWhitespace)

(***************************************************************************)
(* Descriptor strings.                                                     *)
(***************************************************************************)
\* the bytes bytes.rstrip() removes: space, \t, \n, \r, \x0b, \x0c
BytesWhitespace == {32, 9, 10, 13, 11, 12}

\* desc[:13] with newline and carriage return replaced by NUL
Terminated(desc) == Replace(Replace(Take(desc, 13), 10, 0), 13, 0)

\* the part before the first NUL, if there is one
BeforeNull(desc) ==
  LET null_index == Find(desc, 0) - 1 IN
  IF null_index # -1 THEN Take(desc, null_index) ELSE desc

IsNonPrintable(x) == x < 32 \/ x > 126

\* the bytes of desc the loop replaces by NUL
non_printable_count(desc) ==
  Cardinality({i \in 1..Len(desc) : IsNonPrintable(desc[i])})

\* Blanked leaving the bytes above 126 as they are
BlankedControls(desc) == [i \in 1..Len(desc) |-> IF desc[i] < 32 THEN 0 ELSE desc[i]]

\* every non-printable byte replaced by NUL
Blanked(desc) ==
  [i \in 1..Len(desc) |-> IF IsNonPrintable(desc[i]) THEN 0 ELSE desc[i]]

\* edid_parse_string with a threshold of five replaced bytes
edid_parse_string_lenient(desc) ==
  LET stripped == RStrip(BeforeNull(Terminated(desc)), BytesWhitespace) IN
  IF non_printable_count(stripped) <= 5
  THEN Some(Replace(Blanked(stripped), 0, 45))
  ELSE None

edid_parse_string(desc) ==
  LET stripped == RStrip(BeforeNull(Terminated(desc)), BytesWhitespace) IN
  IF non_printable_count(stripped) <= 4
  THEN Some(Replace(Blanked(stripped), 0, 45))
  ELSE None

(***************************************************************************)
(* The manufacturer database: its candidate paths, the lines the model's   *)
(* files are made of, and the two line parsers.                            *)
(***************************************************************************)
\* sys.platform
Platforms == {"linux", "darwin", "win32"}

HwdbPath == [dir |-> "/usr/lib/udev/hwdb.d", base |-> "20-acpi-vendor", ext |-> "hwdb"]

HwdataPath == [dir |-> "/usr/share/hwdata", base |-> "pnp", ext |-> "ids"]

MiscPath == [dir |-> "/usr/share/misc", base |-> "pnp", ext |-> "ids"]

GnomePath == [dir |-> "/usr/share/libgnome-desktop", base |-> "pnp", ext |-> "ids"]

\* os.path.join(constants.pydir, "pnp.ids")
BundledPath == [dir |-> "pydir", base |-> "pnp", ext |-> "ids"]

AllPaths == {HwdbPath, HwdataPath, MiscPath, GnomePath, BundledPath}

get_pnpid_paths(platform) ==
  <<HwdbPath, HwdataPath, MiscPath, GnomePath>>
    \o (IF platform \in {"darwin", "win32"} THEN <<BundledPath>> ELSE <<>>)

\* path.endswith("hwdb")
EndsWithHwdb(path) == path.ext = "hwdb"

\* "acpi:"
AcpiMarker == <<"a", "c", "p", "i", ":">>

\* "ID_VENDOR_FROM_DATABASE"
VendorMarker ==
  <<"I", "D", "_", "V", "E", "N", "D", "O", "R", "_", "F", "R", "O", "M",
    "_", "D", "A", "T", "A", "B", "A", "S", "E">>

SAM == <<"S", "A", "M">>

NEC == <<"N", "E", "C">>

Samsung == <<"S", "a", "m", "s", "u", "n", "g">>

Other == <<"O", "t", "h", "e", "r">>

NecCorp == <<"N", "E", "C", " ", "C", "o", "r", "p">>

(***************************************************************************)
(* The lines of the model's files.  A file holds its lines by name; Chars  *)
(* gives the characters of each, its line end included.                    *)
(***************************************************************************)
HwdbLines == {"acpi:SAM*:", " ID_VENDOR_FROM_DATABASE=Samsung", " ID_VENDOR_FROM_DATABASE"}

\* "SAM  Other" starts with a no-break space and gives SAM another name;
\* "XYZ" is a line with a single token
PnpLines == {"SAM<TAB>Samsung", "<NBSP>SAM  Other ", "NEC<TAB>NEC Corp", "XYZ"}

Chars(line) ==
  CASE line = "acpi:SAM*:" -> AcpiMarker \o SAM \o <<"*", ":", "LF">>
    [] line = " ID_VENDOR_FROM_DATABASE=Samsung" ->
         <<" ">> \o VendorMarker \o <<"=">> \o Samsung \o <<"LF">>
    [] line = " ID_VENDOR_FROM_DATABASE" -> <<" ">> \o VendorMarker \o <<"LF">>
    [] line = "SAM<TAB>Samsung" -> SAM \o <<"TAB">> \o Samsung \o <<"LF">>
    [] line = "<NBSP>SAM  Other " ->
         <<"NBSP">> \o SAM \o <<" ", " ">> \o Other \o <<" ", "LF">>
    [] line = "NEC<TAB>NEC Corp" -> NEC \o <<"TAB">> \o NecCorp \o <<"LF">>
    [] line = "XYZ" -> <<"X", "Y", "Z", "LF">>

\* the result of a line parser: the exception it ended in ("none": it
\* returned) and the (id, name) it returned
Parsed(id, name) == [exc |-> "none", id |-> id, name |-> name]

Raised(exc) == [exc |-> exc, id |-> None, name |-> None]

parse_hwdb_line(line) ==
  IF StartsWith(Strip(line, UnicodeWhitespace), AcpiMarker)
  THEN Parsed(Some(Take(Split(line, ":")[2], 3)), None)
  ELSE IF StartsWith(Strip(line, UnicodeWhitespace), VendorMarker)
  THEN LET fields == Split1(line, "=") IN
       IF Len(fields) < 2 THEN Raised("IndexError")
       ELSE Parsed(None, Some(Strip(fields[2], UnicodeWhitespace)))
  ELSE Parsed(None, None)

parse_pnpid_line(line) ==
  LET fields == SplitWs1(Strip(line, AsciiWhitespace \cup {"NBSP"})) IN
  IF Len(fields) = 2 THEN Parsed(Some(fields[1]), Some(fields[2]))
  ELSE Parsed(None, None)

(***************************************************************************)
(* Files.  A file that exists delivers its lines in order; with ioerr the  *)
(* read after the last of them raises IOError (with no lines: the open     *)
(* itself fails).  os.path.isfile is exists.                               *)
(***************************************************************************)
Absent == [exists |-> FALSE, lines |-> <<>>, ioerr |-> FALSE]

File(lines, ioerr) == [exists |-> TRUE, lines |-> lines, ioerr |-> ioerr]

\* every text of at most MaxLines lines drawn from lines
Texts(lines) == UNION {[1..n -> lines] : n \in 0..MaxLines}

LinesFor(path) == IF EndsWithHwdb(path) THEN HwdbLines ELSE PnpLines

\* the states of the file at path
FileStates(path) ==
  {Absent} \cup {File(t, e) : t \in Texts(LinesFor(path)), e \in BOOLEAN}

(***************************************************************************)
(* The cache and its population.                                           *)
(***************************************************************************)
\* pnpidcache = {}
EmptyCache == [id \in {} |-> <<>>]

\* InsertEntry without its "id not in pnpidcache" test: a later line
\* overwrites the name
InsertEntryOverwriting(cache, id, name) ==
  IF Truthy(id) /\ Truthy(name)
  THEN [c \in DOMAIN cache \cup {id.val} |->
          IF c = id.val THEN name.val ELSE cache[c]]
  ELSE cache

\* if id and name and id not in pnpidcache: pnpidcache[id] = name
InsertEntry(cache, id, name) ==
  IF Truthy(id) /\ Truthy(name) /\ id.val \notin DOMAIN cache
  THEN [c \in DOMAIN cache \cup {id.val} |->
          IF c = id.val THEN name.val ELSE cache[c]]
  ELSE cache

\* the line parser parse_pnpid_file selects for path
ParseLine(path, line) ==
  IF EndsWithHwdb(path)
  THEN parse_hwdb_line(Chars(line))
  ELSE parse_pnpid_line(Chars(line))

\* the loop of parse_pnpid_file over the lines the file delivers: the cache
\* it leaves and the exception it ended in, if any
RECURSIVE parse_pnpid_file(_, _, _)

\* the rest of the loop once a line parser has ended as r
AfterLine(cache, r, lines, path) ==
  IF r.exc # "none" THEN [cache |-> cache, exc |-> r.exc]
  ELSE parse_pnpid_file(InsertEntry(cache, r.id, r.name), lines, path)

parse_pnpid_file(cache, lines, path) ==
  IF lines = <<>> THEN [cache |-> cache, exc |-> "none"]
  ELSE AfterLine(cache, ParseLine(path, Head(lines)), Tail(lines), path)

\* the loop of load_pnpidcache from paths[i] on
RECURSIVE LoadFrom(_, _, _, _)

\* what load_pnpidcache does after the file at paths[i] was parsed with
\* result r: an IOError of the read goes on to the next path, any other
\* exception leaves the function, no exception breaks the loop
AfterFile(r, files, paths, i) ==
  IF r.exc # "none" THEN r
  ELSE IF files[paths[i]].ioerr THEN LoadFrom(r.cache, files, paths, i + 1)
  ELSE r

LoadFrom(cache, files, paths, i) ==
  IF i > Len(paths) THEN [cache |-> cache, exc |-> "none"]
  ELSE IF ~files[paths[i]].exists THEN LoadFrom(cache, files, paths, i + 1)
  ELSE AfterFile(parse_pnpid_file(cache, files[paths[i]].lines, paths[i]),
                 files, paths, i)

load_pnpidcache(cache, files, platform) ==
  LoadFrom(cache, files, get_pnpid_paths(platform), 1)

\* pnpidcache.get(manufacturer_id)
CacheGet(cache, id) == IF id \in DOMAIN cache THEN Some(cache[id]) ELSE None

\* AfterLoad returning before the lookup: the call that loads finds nothing
AfterLoadNoLookup(r, id) ==
  [cache |-> r.cache, loaded |-> TRUE, exc |-> r.exc, val |-> None]

\* the end of a call that ran load_pnpidcache with result r
AfterLoad(r, id) ==
  [cache |-> r.cache, loaded |-> TRUE, exc |-> r.exc,
   val |-> IF r.exc = "none" THEN CacheGet(r.cache, id) ELSE None]

\* one call: the cache it leaves, whether it ran load_pnpidcache, and its
\* outcome, the exception that left it or the value it returned
get_manufacturer_name(cache, files, platform, id) ==
  IF DOMAIN cache = {}
  THEN AfterLoad(load_pnpidcache(cache, files, platform), id)
  ELSE [cache |-> cache, loaded |-> FALSE, exc |-> "none",
        val |-> CacheGet(cache, id)]

(***************************************************************************)
(* The EDID decoder.  A record is a function from its keys to their        *)
(* values; a float is held as an integer: gamma in hundredths, a           *)
(* chromaticity fraction in 1024ths.  Every parser returns [exc, result],  *)
(* exc the exception that left it ("none" when it returned).               *)
(***************************************************************************)
HEADER == <<0, 8>>
MANUFACTURER_ID == <<8, 10>>
PRODUCT_ID == <<10, 12>>
SERIAL_32 == <<12, 16>>
WEEK_OF_MANUFACTURE == 16
YEAR_OF_MANUFACTURE == 17
EDID_VERSION == 18
EDID_REVISION == 19
MAX_H_SIZE_CM == 21
MAX_V_SIZE_CM == 22
GAMMA == 23
FEATURES == 24
LO_RG_XY == 25
LO_BW_XY == 26
HI_R_X == 27
HI_R_Y == 28
HI_G_X == 29
HI_G_Y == 30
HI_B_X == 31
HI_B_Y == 32
HI_W_X == 33
HI_W_Y == 34
BLOCKS == <<(<<54, 72>>), (<<72, 90>>), (<<90, 108>>), (<<108, 126>>)>>
BLOCK_TYPE == 3
BLOCK_CONTENTS == <<5, 18>>
BLOCK_TYPE_SERIAL_ASCII == <<255>>
BLOCK_TYPE_ASCII == <<254>>
BLOCK_TYPE_MONITOR_NAME == <<252>>
BLOCK_TYPE_COLOR_POINT == <<251>>
BLOCK_TYPE_COLOR_MANAGEMENT_DATA == <<249>>
EXTENSION_FLAG == 126
CHECKSUM == 127

\* the lengths parse_edid takes as they are
ValidLengths == {128, 256, 384}

EmptyResult == [key \in {} |-> 0]

\* result.update(other)
Update(result, other) == other @@ result

Ok(result) == [exc |-> "none", result |-> result]

Fail(exc) == [exc |-> exc, result |-> EmptyResult]

\* n == b for an int n (an element of a bytes object) and a bytes object b:
\* values of different types, equal for no n and b
IntEqBytes(n, b) == FALSE

\* n == s for an int n and a str s
IntEqStr(n, s) == FALSE

\* struct.unpack of a little-endian unsigned integer
RECURSIVE UnpackLE(_)
UnpackLE(b) == IF b = <<>> THEN 0 ELSE Head(b) + 256 * UnpackLE(Tail(b))

\* the ten bits of (high << 2) | low, each weighted 2 ** (i - 10); in 1024ths
RECURSIVE FractionBits(_, _)
FractionBits(h, i) ==
  IF i = 10 THEN 0 ELSE edid_get_bit(h, i) * Pow2(i) + FractionBits(h, i + 1)

\* edid_decode_fraction shifting high by three bits: its top bit is lost
edid_decode_fraction_shift3(high, low) == FractionBits(BitOr(high * 8, low), 0)

edid_decode_fraction(high, low) == FractionBits(BitOr(high * 4, low), 0)

\* md5(edid).hexdigest(): the digest is not computed, it stands for its input
md5(edid) == [md5 |-> edid]

\* edid as bytes, or the exception of the codec that ended as e
Encoded(e, edid) ==
  IF e.exc # "none" THEN [exc |-> e.exc, edid |-> edid]
  ELSE [exc |-> "none", edid |-> [kind |-> "bytes", data |-> e.data]]

\* .encode("latin-1") of the decoder's result d
Reencoded(d, edid) ==
  IF d.exc # "none" THEN [exc |-> d.exc, edid |-> edid]
  ELSE Encoded(Latin1Encode(d.data), edid)

\* edid.decode("utf-8").encode("latin-1") when a marker byte is in edid; the
\* test b"\xc2" in edid of a str raises TypeError
fix_edid_encoding(edid) ==
  IF edid.kind = "str" THEN [exc |-> "TypeError", edid |-> edid]
  ELSE IF Contains(edid.data, 194) \/ Contains(edid.data, 195)
  THEN Reencoded(Utf8Decode(edid.data), edid)
  ELSE [exc |-> "none", edid |-> edid]

\* a str is encoded as latin-1
ensure_bytes(edid) ==
  IF edid.kind = "str" THEN Encoded(Latin1Encode(edid.data), edid)
  ELSE [exc |-> "none", edid |-> edid]

\* the header keys before the manufacturer is looked up
HeaderKeys(edid, id) ==
  ("edid" :> edid) @@ ("hash" :> md5(edid))
    @@ ("header" :> Slice(edid, HEADER[1], HEADER[2]))
    @@ ("manufacturer_id" :> id)

\* the header once get_manufacturer_name has ended as m
HeaderWith(result, m) ==
  IF m.exc # "none"
  THEN [exc |-> m.exc, result |-> EmptyResult,
        cache |-> m.cache, loaded |-> m.loaded]
  ELSE [exc |-> "none",
        result |-> IF Truthy(m.val)
                   THEN Update(result, "manufacturer" :> m.val.val)
                   ELSE result,
        cache |-> m.cache, loaded |-> m.loaded]

\* the header for the decoded manufacturer id
HeaderFor(edid, id, cache, files, platform) ==
  HeaderWith(HeaderKeys(edid, id),
             get_manufacturer_name(cache, files, platform, id))

\* the header keys, with the cache get_manufacturer_name leaves and whether
\* it ran load_pnpidcache
parse_edid_header(edid, cache, files, platform) ==
  IF Len(Slice(edid, MANUFACTURER_ID[1], MANUFACTURER_ID[2])) < 2
  THEN [exc |-> "IndexError", result |-> EmptyResult,
        cache |-> cache, loaded |-> FALSE]
  ELSE HeaderFor(edid,
                 parse_manufacturer_id(
                   Slice(edid, MANUFACTURER_ID[1], MANUFACTURER_ID[2])),
                 cache, files, platform)

parse_edid_basic_display_parameters(edid) ==
  IF Len(Slice(edid, PRODUCT_ID[1], PRODUCT_ID[2])) # 2 THEN Fail("struct.error")
  ELSE IF Len(Slice(edid, SERIAL_32[1], SERIAL_32[2])) # 4
  THEN Fail("struct.error")
  ELSE IF Len(edid) <= FEATURES THEN Fail("IndexError")
  ELSE LET result ==
             ("product_id" :> UnpackLE(Slice(edid, PRODUCT_ID[1], PRODUCT_ID[2])))
               @@ ("serial_32" :> UnpackLE(Slice(edid, SERIAL_32[1], SERIAL_32[2])))
               @@ ("week_of_manufacture" :> At(edid, WEEK_OF_MANUFACTURE))
               @@ ("year_of_manufacture" :> At(edid, YEAR_OF_MANUFACTURE) + 1990)
               @@ ("edid_version" :> At(edid, EDID_VERSION))
               @@ ("edid_revision" :> At(edid, EDID_REVISION))
               @@ ("max_h_size_cm" :> At(edid, MAX_H_SIZE_CM))
               @@ ("max_v_size_cm" :> At(edid, MAX_V_SIZE_CM))
           withGamma ==
             IF ~IntEqBytes(At(edid, GAMMA), <<255>>)
             THEN Update(result, "gamma" :> At(edid, GAMMA) + 100)
             ELSE result
       IN  Ok(Update(withGamma, "features" :> At(edid, FEATURES)))

parse_edid_chromaticity_coordinates(edid) ==
  IF Len(edid) <= HI_W_Y THEN Fail("IndexError")
  ELSE LET Coord(hi, lo, begin, end) ==
             edid_decode_fraction(At(edid, hi),
                                  edid_get_bits(At(edid, lo), begin, end))
       IN  Ok(("red_x" :> Coord(HI_R_X, LO_RG_XY, 6, 7))
                @@ ("red_y" :> Coord(HI_R_Y, LO_RG_XY, 4, 5))
                @@ ("green_x" :> Coord(HI_G_X, LO_RG_XY, 2, 3))
                @@ ("green_y" :> Coord(HI_G_Y, LO_RG_XY, 0, 1))
                @@ ("blue_x" :> Coord(HI_B_X, LO_BW_XY, 6, 7))
                @@ ("blue_y" :> Coord(HI_B_Y, LO_BW_XY, 4, 5))
                @@ ("white_x" :> Coord(HI_W_X, LO_BW_XY, 2, 3))
                @@ ("white_y" :> Coord(HI_W_Y, LO_BW_XY, 0, 1)))

\* SetDefault without its "key not in result" test
SetAlways(result, key, value) == Update(result, key :> value)

\* result[key] = value if key not in result
SetDefault(result, key, value) ==
  IF key \in DOMAIN result THEN result ELSE Update(result, key :> value)

\* the keys one white point sets: its coordinates and gamma under its
\* index n, and under the plain names if those are not set yet
PointKeys(result, n, white_x, white_y, raw) ==
  LET r1 == SetDefault(Update(result, ("white_x_" \o n) :> white_x),
                       "white_x", white_x)
      r2 == SetDefault(Update(r1, ("white_y_" \o n) :> white_y),
                       "white_y", white_y)
  IN  IF ~IntEqStr(raw, <<255>>)
      THEN SetDefault(Update(r2, ("gamma_" \o n) :> raw + 100),
                      "gamma", raw + 100)
      ELSE r2

\* one pass of the loop of parse_color_point_data, for i = 5 or i = 10
ColorPoint(result, block, i) ==
  IF At(block, i) * 5 > i
  THEN PointKeys(result, ToString(At(block, i)),
                 edid_decode_fraction(At(block, i + 2),
                                      edid_get_bits(At(block, i + 1), 2, 3)),
                 edid_decode_fraction(At(block, i + 3),
                                      edid_get_bits(At(block, i + 1), 0, 1)),
                 At(block, i + 4))
  ELSE result

\* for a block of 18 bytes
parse_color_point_data(block) ==
  ColorPoint(ColorPoint(EmptyResult, block, 5), block, 10)

\* text_types.get(tag) for the one-byte slice tag
text_types(tag) ==
  IF tag = BLOCK_TYPE_SERIAL_ASCII THEN Some("serial_ascii")
  ELSE IF tag = BLOCK_TYPE_ASCII THEN Some("ascii")
  ELSE IF tag = BLOCK_TYPE_MONITOR_NAME THEN Some("monitor_name")
  ELSE None

\* result[text_type] = desc.decode("utf-8") if desc is not None
WithText(result, text_type, desc) ==
  IF desc.some THEN Update(result, text_type :> Utf8Decode(desc.val).data)
  ELSE result

\* the dispatch on the type of a block that starts with three zero bytes
Dispatch(result, block, text_type, contents) ==
  IF text_type.some
  THEN Ok(WithText(result, text_type.val, edid_parse_string(contents)))
  ELSE IF Len(block) <= BLOCK_TYPE THEN Fail("IndexError")
  ELSE IF IntEqBytes(At(block, BLOCK_TYPE), BLOCK_TYPE_COLOR_POINT)
  THEN IF Len(block) < 15 THEN Fail("IndexError")
       ELSE Ok(Update(result, parse_color_point_data(block)))
  ELSE IF IntEqBytes(At(block, BLOCK_TYPE), BLOCK_TYPE_COLOR_MANAGEMENT_DATA)
  THEN Ok(Update(result, "color_management_data" :> contents))
  ELSE Ok(result)

\* one pass of the loop of parse_edid_descriptor_blocks, for block
DescriptorBlock(result, block) ==
  IF Take(block, BLOCK_TYPE) # <<0, 0, 0>> THEN Ok(result)
  ELSE Dispatch(result, block,
                text_types(Slice(block, BLOCK_TYPE, BLOCK_TYPE + 1)),
                Slice(block, BLOCK_CONTENTS[1], BLOCK_CONTENTS[2]))

\* the loop from the k-th slot on
RECURSIVE DescriptorBlocksFrom(_, _, _)

\* the rest of the loop once the k-th pass has ended as r
AfterBlock(r, edid, k) ==
  IF r.exc # "none" THEN r ELSE DescriptorBlocksFrom(r.result, edid, k + 1)

DescriptorBlocksFrom(result, edid, k) ==
  IF k > Len(BLOCKS) THEN Ok(result)
  ELSE AfterBlock(
         DescriptorBlock(result, Slice(edid, BLOCKS[k][1], BLOCKS[k][2])),
         edid, k)

parse_edid_descriptor_blocks(edid) == DescriptorBlocksFrom(EmptyResult, edid, 1)

\* parse_edid_extension_blocks summing the bytes of the first page only
parse_edid_extension_blocks_first_page(edid) ==
  IF Len(edid) <= CHECKSUM THEN Fail("IndexError")
  ELSE Ok(("ext_flag" :> At(edid, EXTENSION_FLAG))
            @@ ("checksum" :> At(edid, CHECKSUM))
            @@ ("checksum_valid" :> (Sum(Take(edid, 128)) % 256 = 0)))

\* the loop over the extension blocks sets no key
parse_edid_extension_blocks(edid) ==
  IF Len(edid) <= CHECKSUM THEN Fail("IndexError")
  ELSE Ok(("ext_flag" :> At(edid, EXTENSION_FLAG))
            @@ ("checksum" :> At(edid, CHECKSUM))
            @@ ("checksum_valid" :> (Sum(edid) % 256 = 0)))

\* the four parsers after the header, each result updating the record
RECURSIVE ParseSections(_, _, _)

\* the rest of parse_edid once the k-th parser has ended as r
AfterSection(result, r, edid, k) ==
  IF r.exc # "none" THEN r
  ELSE ParseSections(Update(result, r.result), edid, k + 1)

ParseSections(result, edid, k) ==
  IF k > 4 THEN Ok(result)
  ELSE AfterSection(result,
         CASE k = 1 -> parse_edid_basic_display_parameters(edid)
           [] k = 2 -> parse_edid_chromaticity_coordinates(edid)
           [] k = 3 -> parse_edid_descriptor_blocks(edid)
           [] k = 4 -> parse_edid_extension_blocks(edid),
         edid, k)

\* a call left by exc before the header is parsed
Raise(exc, cache) ==
  [exc |-> exc, result |-> EmptyResult, cache |-> cache, loaded |-> FALSE]

\* the record, or the exception of the parsers after the header
WithSections(header, rest) ==
  [exc |-> rest.exc, result |-> rest.result,
   cache |-> header.cache, loaded |-> header.loaded]

\* parse_edid once parse_edid_header has ended as header
AfterHeader(header, edid) ==
  IF header.exc # "none" THEN header
  ELSE WithSections(header, ParseSections(header.result, edid, 1))

\* parse_edid once ensure_bytes has ended as bytes
AfterEnsure(bytes, cache, files, platform) ==
  IF bytes.exc # "none" THEN Raise(bytes.exc, cache)
  ELSE AfterHeader(parse_edid_header(bytes.edid.data, cache, files, platform),
                   bytes.edid.data)

\* parse_edid once the repair step has ended as fixed
AfterFix(fixed, cache, files, platform) ==
  IF fixed.exc # "none" THEN Raise(fixed.exc, cache)
  ELSE AfterEnsure(ensure_bytes(fixed.edid), cache, files, platform)

\* one call: the record or the exception, and what the call leaves of the
\* cache
parse_edid(edid, cache, files, platform) ==
  AfterFix(IF Len(edid.data) \notin ValidLengths
           THEN fix_edid_encoding(edid)
           ELSE [exc |-> "none", edid |-> edid],
           cache, files, platform)

(***************************************************************************)
(* The state.                                                              *)
(***************************************************************************)
VARIABLES
  files,       \* the file at each candidate path
  platform,    \* sys.platform
  pnpidcache,  \* the module's pnpidcache
  loads,       \* how many times load_pnpidcache was entered
  calls,       \* how many calls have returned or raised
  request,     \* the argument of the last call
  outcome,     \* how the last call ended: [exc, val]
  thread,      \* under SpecThreads: where each thread is in its call
  edid,        \* under SpecEdid: the argument of parse_edid, [kind, data]
  record,      \* under SpecEdid: how the last parse_edid ended: [exc, result]
  seen,        \* under SpecSession: per argument, how its first decode ended
  block,       \* under SpecManufacturerId: the two bytes at offsets 8..9
  manufacturer_id,  \* under SpecManufacturerId: [done, id] of the decode
  desc,        \* under SpecString: the argument of edid_parse_string
  string,      \* under SpecString: [done, val] of the call
  displays,    \* under SpecGetEdid: what the platform holds of its displays
  display_name,  \* under SpecGetEdid: the display_name argument of get_edid
  returned,    \* under SpecGetEdid: [done, exc, result] of the call
  high,        \* under SpecFraction: the high argument of edid_decode_fraction
  low,         \* under SpecFraction: the low argument
  fraction,    \* under SpecFraction: [done, val] of the call, val in 1024ths
  point_block, \* under SpecColorPoint: the block of parse_color_point_data
  color_point  \* under SpecColorPoint: [done, result] of the call

\* the state of the decoder and of its two helpers
edidVars == <<edid, record, seen>>

idVars == <<block, manufacturer_id>>

stringVars == <<desc, string>>

acquireVars == <<displays, display_name, returned>>

fractionVars == <<high, low, fraction>>

pointVars == <<point_block, color_point>>

\* the state of get_edid, edid_decode_fraction and parse_color_point_data
otherVars == <<acquireVars, fractionVars, pointVars>>

vars ==
  <<files, platform, pnpidcache, loads, calls, request, outcome, thread,
    edidVars, idVars, stringVars, otherVars>>

\* no parse_edid call yet
NoRecord == [exc |-> "none", result |-> EmptyResult]

\* the decoder and its helpers before their first call
\* no argument decoded yet
NoneSeen == [e \in {} |-> NoRecord]

DecoderIdle ==
  /\ edid = [kind |-> "bytes", data |-> <<>>]
  /\ record = NoRecord
  /\ seen = NoneSeen

IdIdle ==
  /\ block = <<0, 0>>
  /\ manufacturer_id = [done |-> FALSE, id |-> <<>>]

StringIdle ==
  /\ desc = <<>>
  /\ string = [done |-> FALSE, val |-> None]

\* a platform with no display
NoDisplays ==
  [device |-> FALSE, wmi |-> "wmi", rdsmm |-> FALSE, stdout |-> FALSE,
   edids |-> <<>>]

NotReturned == [done |-> FALSE, exc |-> "none", result |-> EmptyResult]

AcquireIdle ==
  /\ displays = NoDisplays
  /\ display_name = <<>>
  /\ returned = NotReturned

FractionIdle ==
  /\ high = 0
  /\ low = 0
  /\ fraction = [done |-> FALSE, val |-> 0]

PointIdle ==
  /\ point_block = <<>>
  /\ color_point = [done |-> FALSE, result |-> EmptyResult]

OthersIdle == AcquireIdle /\ FractionIdle /\ PointIdle

\* the codes looked up
Codes == {SAM, NEC}

\* the threads of SpecThreads
Threads == {"t1", "t2"}

\* a thread that has not called yet: pc is its place in get_manufacturer_name,
\* id its argument, i the index of the path it is at, k the number of lines
\* it has parsed of that file, val what it returned, partial whether
\* another thread was inside load_pnpidcache when it looked the code up
Idle ==
  [pc |-> "idle", id |-> SAM, i |-> 0, k |-> 0, val |-> None, partial |-> FALSE]

NoOutcome == [exc |-> "none", val |-> None]

\* the file systems with no candidate file, with one, and with the two
\* files a and b (b after a in the list, and read to its end when reached)
NoFile == [p \in AllPaths |-> Absent]

OneFile(a) ==
  {[p \in AllPaths |-> IF p = a THEN fa ELSE Absent] :
     fa \in FileStates(a) \ {Absent}}

TwoFiles(a, b) ==
  {[p \in AllPaths |-> IF p = a THEN fa ELSE IF p = b THEN fb ELSE Absent] :
     fa \in FileStates(a) \ {Absent},
     fb \in {File(t, FALSE) : t \in Texts(LinesFor(b))}}

FileSystems ==
  {NoFile} \cup UNION {OneFile(a) : a \in AllPaths}
           \cup TwoFiles(HwdbPath, HwdataPath)
           \cup TwoFiles(GnomePath, BundledPath)

Init ==
  /\ files \in FileSystems
  /\ platform \in Platforms
  /\ pnpidcache = EmptyCache
  /\ loads = 0
  /\ calls = 0
  /\ request = SAM
  /\ outcome = NoOutcome
  /\ thread = [t \in Threads |-> Idle]
  /\ DecoderIdle
  /\ IdIdle
  /\ StringIdle
  /\ OthersIdle

\* a call that ended as r: what it leaves of the cache and how it ended
Returns(r) ==
  /\ pnpidcache' = r.cache
  /\ loads' = IF r.loaded THEN loads + 1 ELSE loads
  /\ outcome' = [exc |-> r.exc, val |-> r.val]

\* get_manufacturer_name(id), called by the program
GetManufacturerName(id) ==
  /\ calls < MaxCalls
  /\ Returns(get_manufacturer_name(pnpidcache, files, platform, id))
  /\ calls' = calls + 1
  /\ request' = id
  /\ UNCHANGED <<files, platform, thread, edidVars, idVars, stringVars, otherVars>>

Next == \E id \in Codes : GetManufacturerName(id)

Spec == Init /\ [][Next]_vars

(***************************************************************************)
(* The claims about the cache, under Spec.                                 *)
(***************************************************************************)
\* C1 (as claimed): the cache is populated exactly once: after the first
\* call has ended no later call enters load_pnpidcache or changes the cache.
C1_PopulatedOnce ==
  [][calls >= 1 => (loads' = loads /\ pnpidcache' = pnpidcache)]_vars

\* the lines of the hwdb file that hold a vendor code / a vendor name
IsCodeLine(line) ==
  /\ parse_hwdb_line(Chars(line)).exc = "none"
  /\ Truthy(parse_hwdb_line(Chars(line)).id)

IsNameLine(line) ==
  /\ parse_hwdb_line(Chars(line)).exc = "none"
  /\ Truthy(parse_hwdb_line(Chars(line)).name)

\* the (code, name) pairs of an hwdb text: each code line with its nearest
\* following name line
HwdbPairs(lines) ==
  {[id |-> parse_hwdb_line(Chars(lines[ij[1]])).id.val,
    name |-> parse_hwdb_line(Chars(lines[ij[2]])).name.val] :
     ij \in {ij \in (1..Len(lines)) \X (1..Len(lines)) :
                     /\ ij[1] < ij[2]
                     /\ IsCodeLine(lines[ij[1]])
                     /\ IsNameLine(lines[ij[2]])
                     /\ \A k \in (ij[1] + 1)..(ij[2] - 1) : ~IsNameLine(lines[k])}}

\* C2 (as claimed): once a call has parsed the hwdb file without an
\* exception, every code line followed by its nearest name line is an entry
\* code -> name of the cache, and looking the code up returns that name.
C2_HwdbPairsCached ==
  (calls >= 1 /\ files[HwdbPath].exists /\ outcome.exc = "none") =>
    \A pr \in HwdbPairs(files[HwdbPath].lines) :
       /\ pr.id \in DOMAIN pnpidcache
       /\ pnpidcache[pr.id] = pr.name
       /\ request = pr.id => outcome.val = Some(pr.name)

\* the lines in the order load_pnpidcache meets them: path by path, each
\* existing file's lines from the first
RECURSIVE ReadOrderFrom(_, _, _)
ReadOrderFrom(fs, paths, i) ==
  IF i > Len(paths) THEN <<>>
  ELSE [k \in 1..Len(fs[paths[i]].lines) |->
          [path |-> paths[i], line |-> fs[paths[i]].lines[k]]]
       \o ReadOrderFrom(fs, paths, i + 1)

ReadOrder == ReadOrderFrom(files, get_pnpid_paths(platform), 1)

\* the line at position k of the read order yields a (code, name) pair for id
IsPairFor(k, id) ==
  LET r == ParseLine(ReadOrder[k].path, ReadOrder[k].line) IN
  r.exc = "none" /\ Truthy(r.id) /\ Truthy(r.name) /\ r.id.val = id

\* the name of the pair at position k
PairName(k) == ParseLine(ReadOrder[k].path, ReadOrder[k].line).name.val

\* C3: insertion is first-wins: the name the cache holds for a code is the
\* name of the first (code, name) pair a line parser produced for it, in the
\* order the lines are read; no later line or later file changes it.
C3_FirstWins ==
  \A id \in DOMAIN pnpidcache :
     \E k \in 1..Len(ReadOrder) :
        /\ IsPairFor(k, id)
        /\ \A j \in 1..(k - 1) : ~IsPairFor(j, id)
        /\ pnpidcache[id] = PairName(k)

\* C3's case: the cache holds a code for which a later line of the same file
\* gave another name
C3_Witness ==
  /\ files[HwdataPath] = File(<<"<NBSP>SAM  Other ", "SAM<TAB>Samsung">>, FALSE)
  /\ ~files[HwdbPath].exists
  /\ SAM \in DOMAIN pnpidcache
  /\ pnpidcache[SAM] = Other

\* C5 (as claimed): no call ends in an error: each returns a name or nothing.
C5_NeverRaises == outcome.exc = "none"

(***************************************************************************)
(* Concurrent first use: each thread calls get_manufacturer_name once, and *)
(* the threads interleave between the test of the cache, each file open,   *)
(* each line of parse_pnpid_file's loop and the final lookup.              *)
(***************************************************************************)
\* the threads inside load_pnpidcache
Populating == {t \in Threads : thread[t].pc \in {"scan", "read"}}

\* a thread enters get_manufacturer_name(id)
Enter(t, id) ==
  /\ thread[t].pc = "idle"
  /\ thread' = [thread EXCEPT ![t].pc = "check", ![t].id = id]
  /\ UNCHANGED <<files, platform, pnpidcache, loads, calls, request, outcome>>
  /\ UNCHANGED <<edidVars, idVars, stringVars, otherVars>>

\* if not pnpidcache: load_pnpidcache()
CheckCache(t) ==
  /\ thread[t].pc = "check"
  /\ IF DOMAIN pnpidcache = {}
     THEN /\ thread' = [thread EXCEPT ![t].pc = "scan", ![t].i = 1]
          /\ loads' = loads + 1
     ELSE /\ thread' = [thread EXCEPT ![t].pc = "get"]
          /\ loads' = loads
  /\ UNCHANGED <<files, platform, pnpidcache, calls, request, outcome>>
  /\ UNCHANGED <<edidVars, idVars, stringVars, otherVars>>

\* for path in paths: if os.path.isfile(path): open it
OpenNext(t) ==
  /\ thread[t].pc = "scan"
  /\ LET paths == get_pnpid_paths(platform) IN
       thread' =
         IF thread[t].i > Len(paths) THEN [thread EXCEPT ![t].pc = "get"]
         ELSE IF ~files[paths[thread[t].i]].exists
         THEN [thread EXCEPT ![t].i = @ + 1]
         ELSE [thread EXCEPT ![t].pc = "read", ![t].k = 0]
  /\ UNCHANGED <<files, platform, pnpidcache, loads, calls, request, outcome>>
  /\ UNCHANGED <<edidVars, idVars, stringVars, otherVars>>

\* one turn of parse_pnpid_file's loop: the next line is parsed and
\* inserted; at the end of the file the loop of load_pnpidcache breaks, or
\* goes on after an IOError
ParseNextLine(t) ==
  /\ thread[t].pc = "read"
  /\ LET path == get_pnpid_paths(platform)[thread[t].i]
         f == files[path]
     IN  IF thread[t].k < Len(f.lines)
         THEN LET r == ParseLine(path, f.lines[thread[t].k + 1]) IN
              IF r.exc # "none"
              THEN /\ thread' = [thread EXCEPT ![t].pc = r.exc]
                   /\ pnpidcache' = pnpidcache
              ELSE /\ thread' = [thread EXCEPT ![t].k = @ + 1]
                   /\ pnpidcache' = InsertEntry(pnpidcache, r.id, r.name)
         ELSE /\ thread' = IF f.ioerr
                           THEN [thread EXCEPT ![t].pc = "scan", ![t].i = @ + 1]
                           ELSE [thread EXCEPT ![t].pc = "get"]
              /\ pnpidcache' = pnpidcache
  /\ UNCHANGED <<files, platform, loads, calls, request, outcome>>
  /\ UNCHANGED <<edidVars, idVars, stringVars, otherVars>>

\* return pnpidcache.get(manufacturer_id)
Lookup(t) ==
  /\ thread[t].pc = "get"
  /\ thread' = [thread EXCEPT ![t].pc = "done",
                              ![t].val = CacheGet(pnpidcache, thread[t].id),
                              ![t].partial = Populating \ {t} # {}]
  /\ UNCHANGED <<files, platform, pnpidcache, loads, calls, request, outcome>>
  /\ UNCHANGED <<edidVars, idVars, stringVars, otherVars>>

\* the file systems of SpecThreads: at most one candidate file
InitThreads ==
  /\ files \in {NoFile} \cup OneFile(HwdbPath) \cup OneFile(HwdataPath)
  /\ platform = "linux"
  /\ pnpidcache = EmptyCache
  /\ loads = 0
  /\ calls = 0
  /\ request = SAM
  /\ outcome = NoOutcome
  /\ thread = [t \in Threads |-> Idle]
  /\ DecoderIdle
  /\ IdIdle
  /\ StringIdle
  /\ OthersIdle

NextThreads ==
  \E t \in Threads :
     \/ \E id \in Codes : Enter(t, id)
     \/ CheckCache(t)
     \/ OpenNext(t)
     \/ ParseNextLine(t)
     \/ Lookup(t)

SpecThreads == InitThreads /\ [][NextThreads]_vars

\* C4 (as claimed): under concurrent first use one initialization runs to
\* completion before any reader looks a code up: at most one thread ever is
\* inside load_pnpidcache, and once no thread is inside it, no thread has
\* returned a miss, taken while another was populating, for a code the
\* populated cache contains.
C4_SingleInitialization ==
  /\ Cardinality(Populating) <= 1
  /\ Populating = {} =>
       \A t \in Threads :
          (thread[t].pc = "done" /\ thread[t].partial /\ ~thread[t].val.some)
            => thread[t].id \notin DOMAIN pnpidcache

(***************************************************************************)
(* The decoder as the program calls it: parse_edid on one buffer, against  *)
(* a manufacturer database of at most one pnp.ids file.                    *)
(***************************************************************************)
Zeros(n) == [i \in 1..n |-> 0]

\* the bytes of "AB\n" and ten spaces: a monitor name and its terminator
NameContents == <<65, 66, 10>> \o [i \in 1..10 |-> 32]

\* a second white point (index 2) with coordinates and gamma, and no third
PointContents == <<2, 5, 128, 64, 120>> \o Zeros(8)

\* a buffer of 128 bytes: the fixed header, the manufacturer id bytes hi and
\* lo, the gamma byte, and one descriptor whose first three bytes are
\* lead, at slot, with the type tag and the contents given; all else is zero
Buffer(hi, lo, gamma, slot, lead, tag, contents) ==
  LET start == BLOCKS[slot][1] IN
  [i \in 1..128 |->
     LET o == i - 1 IN
     IF o \in {0, 7} THEN 0
     ELSE IF o \in 1..6 THEN 255
     ELSE IF o = 8 THEN hi
     ELSE IF o = 9 THEN lo
     ELSE IF o = GAMMA THEN gamma
     ELSE IF o \in start..(start + 2) THEN lead
     ELSE IF o = start + BLOCK_TYPE THEN tag
     ELSE IF o \in (start + 5)..(start + 17) THEN contents[o - start - 4]
     ELSE 0]

\* the id bytes of SAM and NEC, of three zero fields and of three fields 31
IdBytes == {<<76, 45>>, <<56, 163>>, <<0, 0>>, <<255, 255>>}

GammaBytes == {0, 120, 254, 255}

TypeTags == {255, 254, 252, 251, 249, 16}

Plain == Buffer(76, 45, 120, 1, 0, 252, NameContents)

\* the well-formed buffers
Buffers ==
  {Buffer(b[1], b[2], 120, 1, 0, 252, NameContents) : b \in IdBytes}
    \cup {Buffer(76, 45, g, 1, 0, 252, NameContents) : g \in GammaBytes}
    \cup {Buffer(76, 45, 120, slot, lead, tag, c) :
            slot \in 1..4, lead \in {0, 1}, tag \in TypeTags,
            c \in {NameContents, PointContents}}

\* a bytes object encoded as UTF-8 after a latin-1 decode, the conversion
\* fix_edid_encoding undoes; encoded by halves
RECURSIVE Misencode(_)
Misencode(b) ==
  IF b = <<>> THEN <<>>
  ELSE IF Len(b) = 1
  THEN IF b[1] < 128 THEN b
       ELSE <<192 + (b[1] \div 64), 128 + (b[1] % 64)>>
  ELSE LET h == Len(b) \div 2 IN
       Misencode(SubSeq(b, 1, h)) \o Misencode(SubSeq(b, h + 1, Len(b)))

Bytes(data) == [kind |-> "bytes", data |-> data]

Str(data) == [kind |-> "str", data |-> data]

\* arguments whose length is none of 128, 256, 384: a trailing byte, a
\* misencoded buffer, a lone marker byte, a character above latin-1, a
\* misencoding that shrinks below 128 bytes, and a str
Malformed ==
  {Bytes(Plain \o <<0>>), Bytes(Misencode(Plain)), Bytes(Plain \o <<194>>),
   Bytes(Zeros(126) \o <<196, 128, 194, 128>>),
   Bytes(Zeros(124) \o <<194, 128, 194, 128, 194, 128>>),
   Bytes(Plain \o <<196, 128>>),
   Str(Plain \o <<0>>), Bytes(Take(Plain, 127))}

\* b with the checksum byte that makes the sum of all its bytes 0 modulo 256
WithChecksum(b) ==
  Take(b, CHECKSUM)
    \o <<(256 - ((Sum(b) - b[CHECKSUM + 1]) % 256)) % 256>>
    \o From(b, CHECKSUM + 1)

\* buffers of one and two pages whose bytes sum to 0 modulo 256, and one of
\* two pages whose first page alone does
Checksummed ==
  {Bytes(WithChecksum(Plain)), Bytes(WithChecksum(Plain \o Zeros(127) \o <<7>>)),
   Bytes(WithChecksum(Plain) \o Zeros(127) \o <<1>>)}

Inputs ==
  {Bytes(b) : b \in Buffers}
    \cup {Bytes(Plain \o Zeros(128)), Str(Plain), Str(Take(Plain, 127) \o <<256>>)}
    \cup Malformed
    \cup Checksummed

InitEdid ==
  /\ files \in {NoFile} \cup OneFile(HwdataPath)
  /\ platform = "linux"
  /\ pnpidcache = EmptyCache
  /\ loads = 0
  /\ calls = 0
  /\ request = SAM
  /\ outcome = NoOutcome
  /\ thread = [t \in Threads |-> Idle]
  /\ edid \in Inputs
  /\ record = NoRecord
  /\ seen = NoneSeen
  /\ IdIdle
  /\ StringIdle
  /\ OthersIdle

\* a call that ended as r: the record or the exception, and the cache
Decodes(r) ==
  /\ record' = [exc |-> r.exc, result |-> r.result]
  /\ pnpidcache' = r.cache
  /\ loads' = IF r.loaded THEN loads + 1 ELSE loads

\* parse_edid(edid), called by the program
ParseEdid ==
  /\ calls < MaxCalls
  /\ Decodes(parse_edid(edid, pnpidcache, files, platform))
  /\ calls' = calls + 1
  /\ UNCHANGED <<files, platform, request, outcome, thread, edid, seen>>
  /\ UNCHANGED <<idVars, stringVars, otherVars>>

NextEdid == ParseEdid

SpecEdid == InitEdid /\ [][NextEdid]_vars

(***************************************************************************)
(* The claims about the decoder, under SpecEdid.                           *)
(***************************************************************************)
\* parse_edid has returned a record for an argument of a valid length
Accepted ==
  calls >= 1 /\ record.exc = "none" /\ Len(edid.data) \in ValidLengths

\* the bytes the record was decoded from
Decoded == record.result["edid"]

\* C6: for every buffer parse_edid accepts (128, 256 or 384 bytes), the
\* record has no gamma key when byte 23 is 0xFF, and otherwise has gamma
\* equal to raw/100 + 1 (raw + 100 in hundredths).
C6_GammaSentinelOmitted ==
  Accepted =>
    IF At(Decoded, GAMMA) = 255
    THEN "gamma" \notin DOMAIN record.result
    ELSE /\ "gamma" \in DOMAIN record.result
         /\ record.result["gamma"] = At(Decoded, GAMMA) + 100

\* the descriptor slots of the decoded buffer that start with three zero
\* bytes, and the type tag of a slot
SlotBlock(k) == Slice(Decoded, BLOCKS[k][1], BLOCKS[k][2])

ZeroLed == {k \in 1..Len(BLOCKS) : Take(SlotBlock(k), 3) = <<0, 0, 0>>}

Tag(k) == At(SlotBlock(k), BLOCK_TYPE)

SlotContents(k) == Slice(SlotBlock(k), BLOCK_CONTENTS[1], BLOCK_CONTENTS[2])

TextKey(tag) ==
  CASE tag = 255 -> "serial_ascii" [] tag = 254 -> "ascii"
    [] tag = 252 -> "monitor_name"

\* the keys only a descriptor sets
DescriptorKeys(k) ==
  CASE Tag(k) \in {255, 254, 252} -> {TextKey(Tag(k))}
    [] Tag(k) = 251 ->
         DOMAIN parse_color_point_data(SlotBlock(k)) \ {"white_x", "white_y", "gamma"}
    [] Tag(k) = 249 -> {"color_management_data"}
    [] OTHER -> {}

AllDescriptorKeys ==
  {"serial_ascii", "ascii", "monitor_name", "color_management_data",
   "white_x_2", "white_y_2", "gamma_2"}

\* C8: for each descriptor slot that starts with three zero bytes,
\* parse_edid dispatches on the tag at slot byte 3: 0xFB puts the keys of
\* parse_color_point_data into the record, 0xF9 puts color_management_data
\* equal to slot bytes 5..17, 0xFF/0xFE/0xFC put the string edid_parse_string
\* returns under serial_ascii/ascii/monitor_name, and any other tag
\* contributes nothing.
C8_DescriptorDispatch ==
  Accepted =>
    /\ \A k \in ZeroLed :
         /\ Tag(k) = 251 =>
              \A key \in DOMAIN parse_color_point_data(SlotBlock(k)) :
                key \in DOMAIN record.result
         /\ Tag(k) = 249 =>
              /\ "color_management_data" \in DOMAIN record.result
              /\ record.result["color_management_data"] = SlotContents(k)
         /\ (Tag(k) \in {255, 254, 252} /\ edid_parse_string(SlotContents(k)).some) =>
              /\ TextKey(Tag(k)) \in DOMAIN record.result
              /\ record.result[TextKey(Tag(k))] =
                   edid_parse_string(SlotContents(k)).val
    /\ \A key \in AllDescriptorKeys \cap DOMAIN record.result :
         \E k \in ZeroLed : key \in DescriptorKeys(k)

\* C9: parse_edid never raises on an argument of malformed length: for
\* every argument of length >= 128 that is not 128, 256 or 384 long, the
\* call returns a record.
C9_NeverRaisesOnLength ==
  (calls >= 1 /\ Len(edid.data) >= 128 /\ Len(edid.data) \notin ValidLengths)
    => record.exc = "none"

\* the record parse_edid returns now for the decoded bytes with a valid
\* checksum byte
Corrected ==
  parse_edid(Bytes(WithChecksum(Decoded)), pnpidcache, files, platform).result

\* the keys that hold the buffer itself and its digest
RawKeys == {"edid", "hash"}

\* C11: checksum_valid is true exactly when the sum of every byte of the
\* buffer (128, 256 or 384 bytes) is 0 modulo 256; a mismatch changes no
\* key of the record other than checksum_valid, checksum and the keys that
\* hold the bytes themselves (edid and hash).
C11_ChecksumInformational ==
  Accepted =>
    /\ record.result["checksum_valid"] <=> (Sum(Decoded) % 256 = 0)
    /\ \A valid \in {Corrected} :
         /\ DOMAIN valid = DOMAIN record.result
         /\ \A key \in DOMAIN record.result \ ({"checksum", "checksum_valid"} \cup RawKeys) :
              record.result[key] = valid[key]

\* a two-page buffer whose first page sums to 0 and whose second does not
C11_Witness ==
  /\ Accepted
  /\ Len(Decoded) = 256
  /\ Sum(Take(Decoded, 128)) % 256 = 0
  /\ ~record.result["checksum_valid"]

\* C11 as stated: with a mismatch every key other than checksum_valid and
\* checksum is the same as for the same bytes with a valid checksum byte.
C11_OnlyChecksumDiffers ==
  Accepted =>
    /\ record.result["checksum_valid"] <=> (Sum(Decoded) % 256 = 0)
    /\ \A valid \in {Corrected} :
         /\ DOMAIN valid = DOMAIN record.result
         /\ \A key \in DOMAIN record.result \ {"checksum", "checksum_valid"} :
              record.result[key] = valid[key]

(***************************************************************************)
(* parse_manufacturer_id on every pair of bytes.                           *)
(***************************************************************************)
InitManufacturerId ==
  /\ files = NoFile
  /\ platform = "linux"
  /\ pnpidcache = EmptyCache
  /\ loads = 0
  /\ calls = 0
  /\ request = SAM
  /\ outcome = NoOutcome
  /\ thread = [t \in Threads |-> Idle]
  /\ DecoderIdle
  /\ block \in [1..2 -> Byte]
  /\ manufacturer_id = [done |-> FALSE, id |-> <<>>]
  /\ StringIdle
  /\ OthersIdle

\* parse_manufacturer_id(block), as parse_edid_header calls it
ParseManufacturerId ==
  /\ ~manufacturer_id.done
  /\ manufacturer_id' = [done |-> TRUE, id |-> parse_manufacturer_id(block)]
  /\ UNCHANGED <<files, platform, pnpidcache, loads, calls, request, outcome>>
  /\ UNCHANGED <<thread, edidVars, block, stringVars, otherVars>>

NextManufacturerId == ParseManufacturerId

SpecManufacturerId == InitManufacturerId /\ [][NextManufacturerId]_vars

Letters ==
  <<"A", "B", "C", "D", "E", "F", "G", "H", "I", "J", "K", "L", "M",
    "N", "O", "P", "Q", "R", "S", "T", "U", "V", "W", "X", "Y", "Z">>

\* the i-th 5-bit field of the 16-bit value of block, counted from the top
Field(i) == ((block[1] * 256 + block[2]) \div Pow2(5 * (3 - i))) % 32

\* C7: for all 65536 values of the two bytes at offsets 8..9, the decoded
\* manufacturer_id is exactly 3 characters: a field in 1..26 gives its
\* letter A..Z, a field 0 gives "@", and a field in 27..31 gives one of
\* "[", backslash, "]", "^", "_".
C7_IdCharacters ==
  manufacturer_id.done =>
    /\ Len(manufacturer_id.id) = 3
    /\ \A i \in 1..3 :
         /\ Field(i) \in 1..26 => manufacturer_id.id[i] = Letters[Field(i)]
         /\ Field(i) = 0 => manufacturer_id.id[i] = "@"
         /\ Field(i) \in 27..31 =>
              manufacturer_id.id[i] =
                <<"[", "BACKSLASH", "]", "^", "_">>[Field(i) - 26]

\* the bytes 0x00 0x1B decode to "@@["
C7_Witness ==
  /\ manufacturer_id.done
  /\ block = <<0, 27>>
  /\ manufacturer_id.id = <<"@", "@", "[">>

\* C7 as stated: the decoded manufacturer_id is exactly 3 characters, each
\* drawn from A..Z, for all 65536 values of the two bytes.
C7_OnlyLetters ==
  manufacturer_id.done =>
    /\ Len(manufacturer_id.id) = 3
    /\ \A i \in 1..3 : \E n \in 1..26 : manufacturer_id.id[i] = Letters[n]

(***************************************************************************)
(* edid_parse_string on short descriptors over a small alphabet, and on    *)
(* descriptors longer than 13 bytes.                                       *)
(***************************************************************************)
\* NUL, a control byte, tab, newline, carriage return and "A"
DescBytes == {0, 1, 9, 10, 13, 65}

\* the descriptors of n bytes
DescsOfLen(n) == [1..n -> DescBytes]

\* descriptors of 14 bytes: a prefix, "A" up to the twelfth byte, and two
\* more bytes, the last of them beyond the 13 the parser keeps
LongDescs ==
  {p \o [i \in 1..(12 - Len(p)) |-> 65] \o q :
     p \in {<<>>, <<1, 1, 1>>, <<1, 1, 1, 1>>}, q \in DescsOfLen(2)}

\* descriptors with spaces, DEL and bytes above 126
HighDescs ==
  {<<65, 9, 200, 32>>, <<32, 65, 32, 66, 32, 32>>, <<127, 65, 255, 32, 11, 12>>,
   <<200, 201, 202, 203, 65, 32>>, <<200, 201, 202, 203, 204, 65>>,
   <<126, 32, 31, 13, 200>>}

Descs == UNION {DescsOfLen(n) : n \in 0..MaxDescLen} \cup LongDescs \cup HighDescs

InitString ==
  /\ files = NoFile
  /\ platform = "linux"
  /\ pnpidcache = EmptyCache
  /\ loads = 0
  /\ calls = 0
  /\ request = SAM
  /\ outcome = NoOutcome
  /\ thread = [t \in Threads |-> Idle]
  /\ DecoderIdle
  /\ IdIdle
  /\ desc \in Descs
  /\ string = [done |-> FALSE, val |-> None]
  /\ OthersIdle

\* edid_parse_string(desc), as parse_edid_descriptor_blocks calls it
EdidParseString ==
  /\ ~string.done
  /\ string' = [done |-> TRUE, val |-> edid_parse_string(desc)]
  /\ UNCHANGED <<files, platform, pnpidcache, loads, calls, request, outcome>>
  /\ UNCHANGED <<thread, edidVars, idVars, desc, otherVars>>

NextString == EdidParseString

SpecString == InitString /\ [][NextString]_vars

\* the number of bytes of desc the parser looks at
Kept == IF Len(desc) < 13 THEN Len(desc) ELSE 13

\* the position of the first NUL, newline or carriage return among them,
\* Kept + 1 when there is none
Terminator ==
  IF \E i \in 1..Kept : desc[i] \in {0, 10, 13}
  THEN CHOOSE i \in 1..Kept :
         desc[i] \in {0, 10, 13} /\ \A j \in 1..(i - 1) : desc[j] \notin {0, 10, 13}
  ELSE Kept + 1

\* the position of the last byte before the terminator that is not ASCII
\* whitespace, 0 when there is none
LastKept ==
  IF \E i \in 1..(Terminator - 1) : desc[i] \notin BytesWhitespace
  THEN CHOOSE i \in 1..(Terminator - 1) :
         /\ desc[i] \notin BytesWhitespace
         /\ \A j \in (i + 1)..(Terminator - 1) : desc[j] \in BytesWhitespace
  ELSE 0

\* the non-printable bytes the parser counts, and all those of desc
Counted == {i \in 1..LastKept : IsNonPrintable(desc[i])}

AllNonPrintable == {i \in 1..Len(desc) : IsNonPrintable(desc[i])}

\* C10: edid_parse_string returns nothing exactly when 5 or more bytes
\* outside [32,126] are among the first 13 bytes, before the first
\* NUL/newline/carriage return and before the trailing ASCII whitespace
\* that is stripped; otherwise it returns those bytes with each
\* non-printable one replaced by "-".
C10_CountedThreshold ==
  string.done =>
    /\ string.val.some <=> Cardinality(Counted) <= 4
    /\ string.val.some =>
         /\ Len(string.val.val) = LastKept
         /\ \A i \in 1..LastKept :
              string.val.val[i] = IF IsNonPrintable(desc[i]) THEN 45 ELSE desc[i]

\* "A", a NUL and four control bytes: five non-printable bytes, and "A" is
\* returned
C10_Witness ==
  /\ string.done
  /\ desc = <<65, 0, 1, 1, 1, 1>>
  /\ string.val = Some(<<65>>)

\* C10 as stated: nothing is returned for every input of up to 13 bytes
\* with 5 or more bytes outside [32,126], wherever they are; a string is
\* returned whenever at most 4 bytes are counted.
C10_AnywhereThreshold ==
  string.done =>
    /\ (Len(desc) <= 13 /\ Cardinality(AllNonPrintable) >= 5) => ~string.val.some
    /\ Cardinality(Counted) <= 4 => string.val.some

\* C16: a value edid_parse_string returns is at most 13 bytes long and
\* holds only bytes in [32,126]: no NUL, newline or carriage return, no
\* trailing whitespace, and "-" at the position of each counted
\* non-printable byte.
C16_Printable ==
  (string.done /\ string.val.some) =>
    \A value \in {string.val.val} :
       /\ Len(value) <= 13
       /\ \A i \in 1..Len(value) : value[i] \in 32..126 /\ value[i] \notin {0, 10, 13}
       /\ value # <<>> => value[Len(value)] \notin BytesWhitespace
       /\ \A i \in Counted : i <= Len(value) /\ value[i] = 45

\* "A", a tab, a byte above 126 and a trailing space
C16_Witness ==
  /\ string.done
  /\ desc = <<65, 9, 200, 32>>
  /\ Counted = {2, 3}
  /\ string.val = Some(<<65, 45, 45>>)

(***************************************************************************)
(* A session: decodes of several buffers and lookups, in any order, in one *)
(* process.                                                                *)
(***************************************************************************)
\* a SAM buffer, a NEC buffer and an argument the repair step rejects
SessionInputs ==
  {Bytes(Plain), Bytes(Buffer(56, 163, 120, 1, 0, 252, NameContents)),
   Bytes(Plain \o <<194>>)}

InitSession ==
  /\ files \in {NoFile} \cup OneFile(HwdataPath)
  /\ platform = "linux"
  /\ pnpidcache = EmptyCache
  /\ loads = 0
  /\ calls = 0
  /\ request = SAM
  /\ outcome = NoOutcome
  /\ thread = [t \in Threads |-> Idle]
  /\ DecoderIdle
  /\ IdIdle
  /\ StringIdle
  /\ OthersIdle

\* the first decode of e is remembered with the number of the call, later
\* ones are counted
Remember(e, ended) ==
  IF e \in DOMAIN seen
  THEN [seen EXCEPT ![e].times = @ + 1]
  ELSE (e :> [first |-> ended, at |-> calls + 1, times |-> 1]) @@ seen

\* parse_edid(e), called by the program
Decode(e) ==
  /\ calls < MaxSession
  /\ Decodes(parse_edid(e, pnpidcache, files, platform))
  /\ edid' = e
  /\ seen' = Remember(e, record')
  /\ calls' = calls + 1
  /\ UNCHANGED <<files, platform, request, outcome, thread, idVars, stringVars, otherVars>>

NextSession ==
  \/ \E e \in SessionInputs : Decode(e)
  \/ \E id \in Codes : GetManufacturerName(id)

SpecSession == InitSession /\ [][NextSession]_vars

\* C12: decoding is deterministic: a parse_edid call on an argument decoded
\* before in the same process, whatever decodes and lookups came between,
\* ends as the first one did: the same keys (the manufacturer key present
\* or absent alike), the same values and the same hash.
C12_Deterministic ==
  edid \in DOMAIN seen => record = seen[edid].first

\* the first call decoded the buffer and found its manufacturer, the second
\* was a lookup that found a name, the third decoded the buffer again
C12_Witness ==
  /\ calls = 3
  /\ edid \in DOMAIN seen
  /\ seen[edid].at = 1
  /\ seen[edid].times = 2
  /\ outcome.val.some
  /\ record.exc = "none"
  /\ "manufacturer" \in DOMAIN record.result

(***************************************************************************)
(* get_edid: the platform step and the decode of what it finds.            *)
(***************************************************************************)
\* a platform step that ended with val, after n runs of load_pnpidcache
Acquired(val, cache, n) ==
  [exc |-> "none", val |-> val, cache |-> cache, loads |-> n]

AcquireFails(exc, cache, n) ==
  [exc |-> exc, val |-> None, cache |-> cache, loads |-> n]

\* a dict, as a value next to bytes and str
Dict(result) == [kind |-> "dict", data |-> result]

\* "".join(chr(i) for i in edid[0]) when WMI has a block for the monitor
get_edid_windows_wmi(found) ==
  IF found.edids = <<>> THEN None ELSE Some(Str(found.edids[1]))

\* the EDID value of the registry key of the display, when there is one
get_edid_windows_registry(found) ==
  IF found.edids = <<>> THEN None ELSE Some(Bytes(found.edids[1]))

get_edid_windows(found, cache) ==
  IF ~found.device THEN Acquired(None, cache, 0)
  ELSE IF found.wmi = "wmi" THEN Acquired(get_edid_windows_wmi(found), cache, 0)
  ELSE IF found.wmi = "registry"
  THEN Acquired(get_edid_windows_registry(found), cache, 0)
  ELSE AcquireFails("WMIError", cache, 0)

\* display.get("edid") of the display, when RDSMM has it
get_edid_rdsmm(found, cache) ==
  IF found.edids = <<>> THEN Acquired(None, cache, 0)
  ELSE Acquired(Some(Bytes(found.edids[1])), cache, 0)

\* parsed_edid.get("monitor_name", parsed_edid.get("ascii"))
NameOf(parsed_edid) ==
  IF "monitor_name" \in DOMAIN parsed_edid THEN Some(parsed_edid["monitor_name"])
  ELSE IF "ascii" \in DOMAIN parsed_edid THEN Some(parsed_edid["ascii"])
  ELSE None

Loads(n, r) == IF r.loaded THEN n + 1 ELSE n

\* the loop of get_edid_darwin from the i-th EDID of ioreg's output
RECURSIVE DarwinFrom(_, _, _, _, _, _, _)
\* the loop once parse_edid has ended as r on the i-th EDID
AfterDarwinParse(r, edids, i, name, n, fs, pf) ==
  IF r.exc # "none" THEN AcquireFails(r.exc, r.cache, Loads(n, r))
  ELSE IF NameOf(r.result) = Some(name)
  THEN Acquired(Some(Dict(r.result)), r.cache, Loads(n, r))
  ELSE DarwinFrom(edids, i + 1, name, r.cache, Loads(n, r), fs, pf)

DarwinFrom(edids, i, name, cache, n, fs, pf) ==
  IF i > Len(edids) THEN Acquired(Some(Dict(EmptyResult)), cache, n)
  ELSE IF Len(edids[i]) >= 128
  THEN AfterDarwinParse(parse_edid(Bytes(edids[i]), cache, fs, pf),
                        edids, i, name, n, fs, pf)
  ELSE DarwinFrom(edids, i + 1, name, cache, n, fs, pf)

\* a dict, or None when ioreg printed nothing
get_edid_darwin(found, name, cache, fs, pf) ==
  IF found.stdout THEN DarwinFrom(found.edids, 1, name, cache, 0, fs, pf)
  ELSE Acquired(None, cache, 0)

\* len(edid) of what the platform step returned
LenOf(value) ==
  IF value.kind = "dict" THEN Cardinality(DOMAIN value.data)
  ELSE Len(value.data)

\* get_edid once parse_edid has ended as r, after n earlier loads
AfterParse(r, n) ==
  [exc |-> r.exc, result |-> r.result, cache |-> r.cache,
   loads |-> Loads(n, r)]

\* get_edid once the platform step has ended as a; a dict of 128 keys or
\* more has no slice edid[8:10]
AfterAcquire(a, fs, pf) ==
  IF a.exc # "none"
  THEN [exc |-> a.exc, result |-> EmptyResult, cache |-> a.cache,
        loads |-> a.loads]
  ELSE IF a.val.some /\ LenOf(a.val.val) >= 128
  THEN IF a.val.val.kind = "dict"
       THEN [exc |-> "TypeError", result |-> EmptyResult, cache |-> a.cache,
             loads |-> a.loads]
       ELSE AfterParse(parse_edid(a.val.val, a.cache, fs, pf), a.loads)
  ELSE [exc |-> "none", result |-> EmptyResult, cache |-> a.cache,
        loads |-> a.loads]

\* the platform step: the branch of sys.platform
Acquire(found, name, cache, fs, pf) ==
  IF pf = "win32" THEN get_edid_windows(found, cache)
  ELSE IF pf = "darwin" THEN get_edid_darwin(found, name, cache, fs, pf)
  ELSE IF found.rdsmm THEN get_edid_rdsmm(found, cache)
  ELSE Acquired(None, cache, 0)

get_edid(found, name, cache, fs, pf) ==
  AfterAcquire(Acquire(found, name, cache, fs, pf), fs, pf)

\* a second display, named "C"
Second == Buffer(56, 163, 120, 1, 0, 252, <<67, 10>> \o [i \in 1..11 |-> 32])

\* no EDID, one too short, the EDID of the display "AB", and two displays
EdidLists == {<<>>, <<Take(Plain, 127)>>, <<Plain>>, <<Second, Plain>>}

\* "AB" and "C", as code points
DisplayNames == {<<65, 66>>, <<67>>}

InitGetEdid ==
  /\ files \in {NoFile} \cup OneFile(HwdataPath)
  /\ platform \in Platforms
  /\ pnpidcache = EmptyCache
  /\ loads = 0
  /\ calls = 0
  /\ request = SAM
  /\ outcome = NoOutcome
  /\ thread = [t \in Threads |-> Idle]
  /\ DecoderIdle
  /\ IdIdle
  /\ StringIdle
  /\ displays \in [device : BOOLEAN, wmi : {"wmi", "registry", "missing"},
                   rdsmm : BOOLEAN, stdout : BOOLEAN, edids : EdidLists]
  /\ display_name \in DisplayNames
  /\ returned = NotReturned
  /\ FractionIdle
  /\ PointIdle

\* a call that ended as r
GetEdidReturns(r) ==
  /\ returned' = [done |-> TRUE, exc |-> r.exc, result |-> r.result]
  /\ pnpidcache' = r.cache
  /\ loads' = loads + r.loads

\* get_edid(0, display_name), called by the program
GetEdid ==
  /\ calls < MaxCalls
  /\ GetEdidReturns(get_edid(displays, display_name, pnpidcache, files, platform))
  /\ calls' = calls + 1
  /\ UNCHANGED <<files, platform, request, outcome, thread>>
  /\ UNCHANGED <<edidVars, idVars, stringVars, displays, display_name>>
  /\ UNCHANGED <<fractionVars, pointVars>>

NextGetEdid == GetEdid

SpecGetEdid == InitGetEdid /\ [][NextGetEdid]_vars

\* the record parse_edid decodes from the i-th EDID of the platform
RecordOf(i) ==
  parse_edid(Bytes(displays.edids[i]), pnpidcache, files, platform).result

\* the EDIDs of 128 bytes or more whose name is the one asked for
Matching ==
  {i \in 1..Len(displays.edids) :
     /\ Len(displays.edids[i]) >= 128
     /\ NameOf(RecordOf(i)) = Some(display_name)}

\* the index of the EDID the platform step finds for the requested display,
\* 0 when it finds none
FoundIndex ==
  IF platform = "darwin"
  THEN IF displays.stdout /\ Matching # {}
       THEN CHOOSE i \in Matching : \A j \in Matching : i <= j
       ELSE 0
  ELSE IF displays.edids = <<>> THEN 0
  ELSE IF platform = "win32"
  THEN IF displays.device THEN 1 ELSE 0
  ELSE IF displays.rdsmm THEN 1 ELSE 0

\* the platform step raises: no WMI connection
StepRaises ==
  platform = "win32" /\ displays.device /\ displays.wmi = "missing"

\* C13 (as claimed): get_edid returns the empty record without error when
\* the platform step yields nothing or fewer than 128 bytes, and the
\* non-empty record parse_edid decodes whenever the step finds an EDID of at
\* least 128 bytes for the requested display, on win32, on darwin (matched
\* by display name) and with RealDisplaySizeMM.
C13_GetEdid ==
  (returned.done /\ ~StepRaises) =>
    \A i \in {FoundIndex} :
       /\ returned.exc = "none"
       /\ IF i > 0 /\ Len(displays.edids[i]) >= 128
          THEN /\ returned.result = RecordOf(i)
               /\ returned.result # EmptyResult
          ELSE returned.result = EmptyResult

(***************************************************************************)
(* edid_decode_fraction on every pair of arguments the parsers pass it,    *)
(* and the chromaticity parser on buffers built from the same bytes.       *)
(***************************************************************************)
\* bytes 25 and 26 hold four 2-bit fields each
PackedBytes == {0, 27, 228, 255}

\* a buffer whose coordinate bytes are hi and its complement, with the
\* packed low bits given
ChromaBuffer(hi, packed) ==
  [i \in 1..128 |->
     LET o == i - 1 IN
     IF o = LO_RG_XY THEN packed
     ELSE IF o = LO_BW_XY THEN 255 - packed
     ELSE IF o \in {HI_R_X, HI_G_Y, HI_B_X, HI_W_Y} THEN hi
     ELSE IF o \in {HI_R_Y, HI_G_X, HI_B_Y, HI_W_X} THEN 255 - hi
     ELSE 0]

InitFraction ==
  /\ files = NoFile
  /\ platform = "linux"
  /\ pnpidcache = EmptyCache
  /\ loads = 0
  /\ calls = 0
  /\ request = SAM
  /\ outcome = NoOutcome
  /\ thread = [t \in Threads |-> Idle]
  /\ DecoderIdle
  /\ IdIdle
  /\ StringIdle
  /\ AcquireIdle
  /\ high \in Byte
  /\ low \in 0..3
  /\ fraction = [done |-> FALSE, val |-> 0]
  /\ PointIdle

\* edid_decode_fraction(high, low), as the parsers call it
DecodeFraction ==
  /\ ~fraction.done
  /\ fraction' = [done |-> TRUE, val |-> edid_decode_fraction(high, low)]
  /\ UNCHANGED <<files, platform, pnpidcache, loads, calls, request, outcome>>
  /\ UNCHANGED <<thread, edidVars, idVars, stringVars, acquireVars>>
  /\ UNCHANGED <<high, low, pointVars>>

\* parse_edid_chromaticity_coordinates(edid), as parse_edid calls it
ParseChromaticity(packed) ==
  /\ record = NoRecord
  /\ edid' = Bytes(ChromaBuffer(high, packed))
  /\ record' = parse_edid_chromaticity_coordinates(edid'.data)
  /\ UNCHANGED <<files, platform, pnpidcache, loads, calls, request, outcome>>
  /\ UNCHANGED <<thread, seen, idVars, stringVars, otherVars>>

NextFraction ==
  \/ DecodeFraction
  \/ \E packed \in PackedBytes : ParseChromaticity(packed)

SpecFraction == InitFraction /\ [][NextFraction]_vars

ChromaticityKeys ==
  {"red_x", "red_y", "green_x", "green_y", "blue_x", "blue_y", "white_x",
   "white_y"}

\* C14: edid_decode_fraction(high, low) is ((high << 2) | low) / 1024
\* exactly, for high in 0..255 and low in 0..3, so it lies in [0, 1): 0 for
\* (0, 0) and 1023/1024 for (0xFF, 3); and the eight chromaticity fields of
\* a record lie in [0, 1).  Values are held in 1024ths.
C14_FractionExact ==
  /\ fraction.done =>
       /\ fraction.val = high * 4 + low
       /\ fraction.val \in 0..1023
       /\ (high = 0 /\ low = 0) => fraction.val = 0
       /\ (high = 255 /\ low = 3) => fraction.val = 1023
  /\ record # NoRecord =>
       /\ record.exc = "none"
       /\ DOMAIN record.result = ChromaticityKeys
       /\ \A key \in ChromaticityKeys : record.result[key] \in 0..1023

\* the largest fraction, decoded alone and as the red_x of a record
C14_Witness ==
  /\ fraction.done
  /\ high = 255
  /\ low = 3
  /\ fraction.val = 1023
  /\ record # NoRecord
  /\ record.result["red_x"] = 1023
  /\ record.result["red_y"] = 3

(***************************************************************************)
(* Which file the entries of the cache come from, under Spec.              *)
(***************************************************************************)
\* the open of the file at path fails
Unreadable(path) ==
  files[path].exists /\ files[path].ioerr /\ files[path].lines = <<>>

\* the candidates that exist and can be opened, in the order of the list
Readable ==
  SelectSeq(get_pnpid_paths(platform),
            LAMBDA path : files[path].exists /\ ~Unreadable(path))

\* the entries the lines of the file at path give
EntriesOf(path) == parse_pnpid_file(EmptyCache, files[path].lines, path).cache

\* id is cached with the name the file at path gives it
ComesFrom(id, entries) == id \in DOMAIN entries /\ pnpidcache[id] = entries[id]

\* C15 (as claimed): after load_pnpidcache every entry of the cache comes
\* from a single file, the first candidate that exists and can be read: a
\* missing or unreadable file is skipped, no later candidate is parsed once
\* one is parsed, and a read failure part-way through a file leaves no
\* entries of two files.
C15_SingleFile ==
  (loads > 0 /\ DOMAIN pnpidcache # {}) =>
    /\ Readable # <<>>
    /\ \A entries \in {EntriesOf(Readable[1])} :
         \A id \in DOMAIN pnpidcache : ComesFrom(id, entries)

(***************************************************************************)
(* parse_color_point_data on color point descriptors of 18 bytes.          *)
(***************************************************************************)
\* the five bytes of a white point: index, packed low bits, the high bytes
\* of x and y, gamma
SubRecords ==
  {<<n, lo, x, 64, 120>> : n \in 0..4, lo \in {0, 5, 15}, x \in {1, 128}}

PointBlocks == {<<0, 0, 0, 251, 0>> \o a \o b \o <<0, 0, 0>> : a, b \in SubRecords}

InitColorPoint ==
  /\ files = NoFile
  /\ platform = "linux"
  /\ pnpidcache = EmptyCache
  /\ loads = 0
  /\ calls = 0
  /\ request = SAM
  /\ outcome = NoOutcome
  /\ thread = [t \in Threads |-> Idle]
  /\ DecoderIdle
  /\ IdIdle
  /\ StringIdle
  /\ AcquireIdle
  /\ FractionIdle
  /\ point_block \in PointBlocks
  /\ color_point = [done |-> FALSE, result |-> EmptyResult]

\* parse_color_point_data(block)
ParseColorPointData ==
  /\ ~color_point.done
  /\ color_point' = [done |-> TRUE, result |-> parse_color_point_data(point_block)]
  /\ UNCHANGED <<files, platform, pnpidcache, loads, calls, request, outcome>>
  /\ UNCHANGED <<thread, edidVars, idVars, stringVars, acquireVars>>
  /\ UNCHANGED <<fractionVars, point_block>>

NextColorPoint == ParseColorPointData

SpecColorPoint == InitColorPoint /\ [][NextColorPoint]_vars

\* the sub-record at offset i is to be decoded: its index byte exceeds i / 5
PointDecoded(i) == At(point_block, i) > (IF i = 5 THEN 1 ELSE 2)

\* the coordinates of the sub-record at offset i, in 1024ths
PointX(i) ==
  At(point_block, i + 2) * 4 + ((At(point_block, i + 1) \div 4) % 4)

PointY(i) == At(point_block, i + 3) * 4 + (At(point_block, i + 1) % 4)

KeyX(i) == "white_x_" \o ToString(At(point_block, i))

KeyY(i) == "white_y_" \o ToString(At(point_block, i))

\* every key white_x_<n> and white_y_<n>
IndexedKeys ==
  {"white_x_" \o ToString(n) : n \in Byte} \cup {"white_y_" \o ToString(n) : n \in Byte}

\* a later sub-record is decoded under the index of the one at offset i
Redecoded(i) ==
  i = 5 /\ PointDecoded(10) /\ At(point_block, 10) = At(point_block, 5)

=============================================================================
